---- MODULE Spec2Model ----
(***************************************************************************)
(* A model of turbojigsaw.py: the geometry helpers of Part, Part.fits,     *)
(* Part.make_jigsaw, arrange_to_beds and the command-line entry point.     *)
(*                                                                         *)
(* A mesh is represented by its axis-aligned bounding box (minimum and     *)
(* span per axis), its label and its orientation in quarter turns about    *)
(* the vertical axis.  Lengths are integers counted in units of half the   *)
(* quantum of rectpack.float2dec(.., 1), i.e. 1/20 mm, so that the         *)
(* rounding done by bbox is observable.                                    *)
(***************************************************************************)
EXTENDS Integers, Sequences, FiniteSets, TLC

VARIABLES
    args,            \* sys.argv[1:], the user's arguments
    pc,              \* position of the running code
    bed,             \* the bed_size in use, <<width, height>> in mm
    outdir,          \* output directories created so far
    original_parts,  \* __main__: original_parts
    idx,             \* __main__: position of the loop over original_parts
    parts,           \* __main__: parts / arrange_to_beds: its parts argument
    part,            \* make_jigsaw: the working part; fits: self
    mj,              \* make_jigsaw: its locals
    cutLog,          \* the calls made to the external cutter, in order
    saved,           \* the files written by part.save, in order
    stdout,          \* lines printed, each <<text, number in it>>
    status,          \* exit status of the process, -1 while running
    ret,             \* the value returned by fits (SpecFits)
    rects,           \* arrange_to_beds: rectangles given to packer.add_rect
    bins,            \* arrange_to_beds: the packer's bins after pack()
    beds             \* arrange_to_beds: the beds built so far

vars == <<args, pc, bed, outdir, original_parts, idx, parts, part, mj, cutLog,
          saved, stdout, status, ret, rects, bins, beds>>

packVars == <<rects, bins, beds>>

----------------------------------------------------------------------------
(* Program constants *)

BED_SIZE == <<180, 180>>

BED_SIZE_X1 == <<236, 255>>

BED_SIZE_MK3 == <<200, 200>>

PART_GAP == 1

tooth_size == 5

DecimalDigits == 1

(* Units per millimetre: two units per quantum of float2dec(.., 1). *)
UnitsPerMM == 2 * (10 ^ DecimalDigits)

Quantum == UnitsPerMM \div (10 ^ DecimalDigits)

mm(n) == n * UnitsPerMM

----------------------------------------------------------------------------
(* Bounds of the model *)

MaxInputs == 2

MaxSpanSteps == 16

MaxFitBed == 3

MaxFitSpan == 50

MaxPackParts == 2

----------------------------------------------------------------------------
(* Part: geometry helpers *)

Mesh(name, xmin, ymin, zmin, xspan, yspan, zspan) ==
    [name |-> name, xmin |-> xmin, ymin |-> ymin, zmin |-> zmin,
     xspan |-> xspan, yspan |-> yspan, zspan |-> zspan, rot |-> 0]

NoPart == Mesh("", 0, 0, 0, 0, 0, 0)

reset_origin(p) == [p EXCEPT !.xmin = 0, !.ymin = 0, !.zmin = 0]

(* rectpack.float2dec(v, 1): quantize to one decimal place, ROUND_UP. *)
float2dec(v) == ((v + Quantum - 1) \div Quantum) * Quantum

bbox(p) == <<float2dec(p.xspan + mm(PART_GAP)), float2dec(p.yspan + mm(PART_GAP))>>

(* One quarter turn about the vertical axis through the origin.  numpy-stl *)
(* multiplies row vectors by the Euler-Rodrigues matrix, which turns the   *)
(* mesh clockwise seen from above: (x, y) |-> (y, -x).                     *)
QuarterTurn(p) ==
    [p EXCEPT !.xmin = p.ymin, !.xspan = p.yspan,
              !.ymin = 0 - (p.xmin + p.xspan), !.yspan = p.xspan,
              !.rot = (p.rot + 1) % 4]

RECURSIVE Turns(_, _)
Turns(p, n) == IF n = 0 THEN p ELSE Turns(QuarterTurn(p), n - 1)

rotatez(p, angle) == Turns(p, (angle \div 90) % 4)

(* A fits that turns every oblong part, whatever the bed's aspect ratio. *)
fits_rotates_whenever_oblong(p, bed_size) == bbox(p)[1] # bbox(p)[2]

(* Part.fits: the state of self after the call, and the value returned. *)
fits_rotates(p, bed_size) ==
    \/ bbox(p)[1] > bbox(p)[2] /\ bed_size[1] < bed_size[2]
    \/ bbox(p)[1] < bbox(p)[2] /\ bed_size[1] > bed_size[2]

fits_self(p, bed_size) == IF fits_rotates(p, bed_size) THEN rotatez(p, 90) ELSE p

(* A fits that compares the bare spans, without the PART_GAP margin. *)
fits_ignoring_gap(p, bed_size) ==
    /\ fits_self(p, bed_size).xspan <= mm(bed_size[1])
    /\ fits_self(p, bed_size).yspan <= mm(bed_size[2])

fits(p, bed_size) ==
    /\ bbox(fits_self(p, bed_size))[1] <= mm(bed_size[1])
    /\ bbox(fits_self(p, bed_size))[2] <= mm(bed_size[2])

position_bbox(p, x, y, rotate) ==
    LET q == reset_origin(IF rotate THEN rotatez(p, 90) ELSE p)
    IN  [q EXCEPT !.xmin = x + mm(PART_GAP) \div 2, !.ymin = y + mm(PART_GAP) \div 2]

----------------------------------------------------------------------------
(* The meshes on disk, by path, and the order sorted() puts the paths in *)

Disk ==
    [ f \in {"a.stl", "b.stl", "c.stl", "d.stl", "e.stl"} |->
        CASE f = "a.stl" -> Mesh(f, mm(3), mm(4), mm(1), mm(100), mm(100), mm(10))
          [] f = "b.stl" -> Mesh(f, 0, 0, 0, mm(400), mm(100), mm(10))
          [] f = "c.stl" -> Mesh(f, 0, 0, 0, mm(180) - 10, mm(10), mm(10))
          [] f = "d.stl" -> Mesh(f, mm(3), 0, 0, mm(200), mm(300), mm(10))
          [] f = "e.stl" -> Mesh(f, 0, 0, 0, mm(179), mm(50), mm(10)) ]

Paths == DOMAIN Disk

PathRank ==
    [ f \in Paths |->
        CASE f = "a.stl" -> 1 [] f = "b.stl" -> 2 [] f = "c.stl" -> 3
          [] f = "d.stl" -> 4 [] f = "e.stl" -> 5 ]

RECURSIVE Insert(_, _)
Insert(s, f) ==
    IF s = <<>> THEN <<f>>
    ELSE IF PathRank[f] < PathRank[Head(s)] THEN <<f>> \o s
    ELSE <<Head(s)>> \o Insert(Tail(s), f)

RECURSIVE sorted(_)
sorted(s) == IF s = <<>> THEN <<>> ELSE Insert(sorted(Tail(s)), Head(s))

from_file(f) == Disk[f]

SeqsUpTo(S, n) == UNION { [1..k -> S] : k \in 0..n }

(* sys.argv: the program's own name followed by the user's arguments *)
sys_argv == <<"turbojigsaw.py">> \o args

----------------------------------------------------------------------------
(* Part.make_jigsaw *)

CeilDiv(a, b) == (a + b - 1) \div b

(* A piece count that forgets the tooth allowance. *)
pieces_without_tooth(span, bed_dim) == CeilDiv(span, mm(bed_dim))

(* lines 186-187: math.ceil((span + tooth_size) / bed dimension) *)
pieces(span, bed_dim) == CeilDiv(span + mm(tooth_size), mm(bed_dim))

make_jigsaw_precondition(p, bed_size) ==
    p.xspan > mm(bed_size[1]) \/ p.yspan > mm(bed_size[2])

NoLocals == [y_pieces |-> 0, x_pieces |-> 0, yspan |-> 0, xspan |-> 0, i |-> 0]

(* The external cutter's result read back by Part.from_file(output_stl):   *)
(* the same extent with the grooves carved in, labelled by its path.       *)
CutterOutput(p) == [p EXCEPT !.name = "out.stl"]

(* A call of dovetail_at_y(y): the mesh saved for the cutter and the       *)
(* template's parameters; y is the exact quotient num / den.               *)
CutCall(p, num, den) ==
    [mesh |-> p, num |-> num, den |-> den, length |-> p.xspan, height |-> p.zspan]

MJEnter ==
    /\ pc = "mj_enter"
    /\ part' = reset_origin(part)
    /\ IF make_jigsaw_precondition(part', bed)
       THEN /\ mj' = [y_pieces |-> pieces(part'.yspan, bed[2]),
                      x_pieces |-> pieces(part'.xspan, bed[1]),
                      yspan |-> part'.yspan, xspan |-> part'.xspan, i |-> 1]
            /\ pc' = "mj_ycuts"
            /\ UNCHANGED <<stdout, status>>
       ELSE /\ pc' = "assert_failed"
            /\ stdout' = Append(stdout, <<"AssertionError: Part is smaller than bed", 0>>)
            /\ status' = 1
            /\ UNCHANGED mj
    /\ UNCHANGED <<args, bed, outdir, original_parts, idx, parts, cutLog, saved, ret>>
    /\ UNCHANGED packVars

(* One iteration of a cut loop: dovetail_at_y, then reset_origin.  A       *)
(* non-zero exit of the cutter raises out of the whole program.            *)
CutStep(num, den) ==
    /\ cutLog' = Append(cutLog, CutCall(part, num, den))
    /\ \E ok \in BOOLEAN :
         IF ok
         THEN /\ part' = reset_origin(CutterOutput(part))
              /\ mj' = [mj EXCEPT !.i = mj.i + 1]
              /\ UNCHANGED <<pc, stdout, status>>
         ELSE /\ pc' = "cutter_failed"
              /\ stdout' = Append(stdout, <<"CalledProcessError", 0>>)
              /\ status' = 1
              /\ UNCHANGED <<part, mj>>
    /\ UNCHANGED <<args, bed, outdir, original_parts, idx, parts, saved, ret>>
    /\ UNCHANGED packVars

MJCutY ==
    /\ pc = "mj_ycuts"
    /\ mj.i < mj.y_pieces
    /\ CutStep(mj.yspan * mj.i, mj.y_pieces)

MJRotate ==
    /\ pc = "mj_ycuts"
    /\ mj.i >= mj.y_pieces
    /\ part' = reset_origin(rotatez(part, 90))
    /\ mj' = [mj EXCEPT !.i = 1]
    /\ pc' = "mj_xcuts"
    /\ UNCHANGED <<args, bed, outdir, original_parts, idx, parts, cutLog, saved,
                   stdout, status, ret>>
    /\ UNCHANGED packVars

MJCutX ==
    /\ pc = "mj_xcuts"
    /\ mj.i < mj.x_pieces
    /\ CutStep(mj.xspan * mj.i, mj.x_pieces)

MJReturn ==
    /\ pc = "mj_xcuts"
    /\ mj.i >= mj.x_pieces
    /\ part' = [reset_origin(rotatez(part, 270)) EXCEPT !.name = "jigsaw_assembled"]
    /\ pc' = "mj_returned"
    /\ UNCHANGED <<args, bed, outdir, original_parts, idx, parts, mj, cutLog, saved,
                   stdout, status, ret>>
    /\ UNCHANGED packVars

----------------------------------------------------------------------------
(* __main__ *)

AfterLoop(i, n) == IF i > n THEN "save" ELSE "loop"

MainUsage ==
    /\ pc = "start"
    /\ Len(sys_argv) < 2
    /\ stdout' = Append(stdout, <<"Usage", 0>>)
    /\ status' = 1
    /\ pc' = "exited"
    /\ UNCHANGED <<args, bed, outdir, original_parts, idx, parts, part, mj, cutLog,
                   saved, ret>>
    /\ UNCHANGED packVars

MainSetup ==
    /\ pc = "start"
    /\ ~(Len(sys_argv) < 2)
    /\ outdir' = outdir \cup {sys_argv[Len(sys_argv)]}
    /\ original_parts' =
         LET names == sorted(SubSeq(sys_argv, 2, Len(sys_argv) - 1))
         IN  [k \in 1..Len(names) |-> from_file(names[k])]
    /\ parts' = <<>>
    /\ idx' = 1
    /\ pc' = AfterLoop(1, Len(original_parts'))
    /\ UNCHANGED <<args, bed, part, mj, cutLog, saved, stdout, status, ret>>
    /\ UNCHANGED packVars

MainFits ==
    /\ pc = "loop"
    /\ fits(original_parts[idx], bed)
    /\ original_parts' = [original_parts EXCEPT ![idx] = fits_self(@, bed)]
    /\ parts' = Append(parts, original_parts'[idx])
    /\ idx' = idx + 1
    /\ pc' = AfterLoop(idx', Len(original_parts))
    /\ UNCHANGED <<args, bed, outdir, part, mj, cutLog, saved, stdout, status, ret>>
    /\ UNCHANGED packVars

MainNoFit ==
    /\ pc = "loop"
    /\ ~fits(original_parts[idx], bed)
    /\ original_parts' = [original_parts EXCEPT ![idx] = fits_self(@, bed)]
    /\ stdout' = Append(stdout, <<"does not fit, making jigsaw pieces...", 0>>)
    /\ part' = original_parts'[idx]
    /\ pc' = "mj_enter"
    /\ UNCHANGED <<args, bed, outdir, idx, parts, mj, cutLog, saved, status, ret>>
    /\ UNCHANGED packVars

MainAppendJigsaw ==
    /\ pc = "mj_returned"
    /\ parts' = parts \o <<part>>
    /\ idx' = idx + 1
    /\ pc' = AfterLoop(idx', Len(original_parts))
    /\ UNCHANGED <<args, bed, outdir, original_parts, part, mj, cutLog, saved,
                   stdout, status, ret>>
    /\ UNCHANGED packVars

(* line 237: output_dir / f"{part.name}.stl" *)
OutputFile(p) == <<sys_argv[Len(sys_argv)], p.name, ".stl">>

(* A save loop that runs inside the loop over original_parts. *)
CanSaveInsideLoop == pc \in {"loop", "save"}

(* lines 236-237 run after the loop of lines 227-232 has ended *)
CanSave == pc = "save"

MainSave ==
    /\ CanSave
    /\ Len(saved) < Len(parts)
    /\ saved' = Append(saved, [file |-> OutputFile(parts[Len(saved) + 1]),
                               mesh |-> parts[Len(saved) + 1]])
    /\ UNCHANGED <<args, pc, bed, outdir, original_parts, idx, parts, part, mj,
                   cutLog, stdout, status, ret>>
    /\ UNCHANGED packVars

MainDone ==
    /\ pc = "save"
    /\ Len(saved) >= Len(parts)
    /\ stdout' = Append(stdout, <<"Saved", Len(parts)>>)
    /\ status' = 0
    /\ pc' = "done"
    /\ UNCHANGED <<args, bed, outdir, original_parts, idx, parts, part, mj, cutLog,
                   saved, ret>>
    /\ UNCHANGED packVars

ArgLists == {<<>>} \cup { ins \o <<"out">> : ins \in SeqsUpTo(Paths, MaxInputs) }

Init ==
    /\ args \in ArgLists
    /\ pc = "start"
    /\ bed = BED_SIZE
    /\ outdir = {}
    /\ original_parts = <<>>
    /\ idx = 0
    /\ parts = <<>>
    /\ part = NoPart
    /\ mj = NoLocals
    /\ cutLog = <<>>
    /\ saved = <<>>
    /\ stdout = <<>>
    /\ status = -1
    /\ ret = FALSE
    /\ rects = <<>>
    /\ bins = <<>>
    /\ beds = <<>>

Next ==
    \/ MainUsage
    \/ MainSetup
    \/ MainFits
    \/ MainNoFit
    \/ MJEnter
    \/ MJCutY
    \/ MJRotate
    \/ MJCutX
    \/ MJReturn
    \/ MainAppendJigsaw
    \/ MainSave
    \/ MainDone

Spec == Init /\ [][Next]_vars

----------------------------------------------------------------------------
(* make_jigsaw called directly, on any part and any of the beds the source *)
(* names                                                                   *)

BedChoices == {BED_SIZE, BED_SIZE_X1, BED_SIZE_MK3}

JigsawSpans ==
    { mm(25 * k) : k \in 1..MaxSpanSteps }
        \cup { mm(179), mm(180) - 10, mm(180) + 1, mm(181), mm(355) }

Origins == { <<0, 0, 0>>, <<mm(3), mm(4), mm(1)>> }

JigsawParts ==
    { Mesh("in.stl", o[1], o[2], o[3], xs, ys, mm(10)) :
        o \in Origins, xs \in JigsawSpans, ys \in JigsawSpans }

InitJigsaw ==
    /\ args = <<>>
    /\ pc = "mj_enter"
    /\ bed \in BedChoices
    /\ outdir = {}
    /\ part \in JigsawParts
    /\ original_parts = <<part>>
    /\ idx = 0
    /\ parts = <<>>
    /\ mj = NoLocals
    /\ cutLog = <<>>
    /\ saved = <<>>
    /\ stdout = <<>>
    /\ status = -1
    /\ ret = FALSE
    /\ rects = <<>>
    /\ bins = <<>>
    /\ beds = <<>>

NextJigsaw ==
    \/ MJEnter
    \/ MJCutY
    \/ MJRotate
    \/ MJCutX
    \/ MJReturn

SpecJigsaw == InitJigsaw /\ [][NextJigsaw]_vars

----------------------------------------------------------------------------
(* Claims about the entry point (Spec) *)

InputPaths == SubSeq(sys_argv, 2, Len(sys_argv) - 1)

SavedFiles == { saved[k].file : k \in 1..Len(saved) }

MinIsZero(p) == p.xmin = 0 /\ p.ymin = 0 /\ p.zmin = 0

(* Whether a bbox fits the bed in at least one of its two orientations. *)
EitherOrientationFits(b, bed_size) ==
    LET bx == b[1]
        by == b[2]
        W  == mm(bed_size[1])
        H  == mm(bed_size[2])
    IN  (bx <= W /\ by <= H) \/ (by <= W /\ bx <= H)

C3_HandedOnPartsAreNormalised ==
    \A k \in 1..Len(saved) : MinIsZero(saved[k].mesh)

(* C4, as claimed: with fewer than 2 arguments the program prints the      *)
(* usage message, exits non-zero, and creates no directory, loads no part  *)
(* and prints no "Saved" line.                                             *)
C4_FewerThanTwoArgumentsIsUsageError ==
    (Len(args) < 2 /\ pc # "start") =>
        /\ stdout = << <<"Usage", 0>> >>
        /\ status = 1
        /\ outdir = {}
        /\ original_parts = <<>>
        /\ saved = <<>>

(* C8: when the cutter fails the run ends there: nothing has been written, *)
(* the exit status is non-zero, and afterwards no cutter call is made and  *)
(* no file is written.                                                     *)
C8_CutterFailureAbortsWithoutOutput ==
    [][ pc' = "cutter_failed" =>
          /\ saved' = <<>>
          /\ status' # 0
          /\ pc = "cutter_failed" => (cutLog' = cutLog /\ saved' = saved) ]_vars

C8_Witness ==
    /\ pc = "cutter_failed"
    /\ Len(parts) >= 1
    /\ Len(cutLog) >= 2

(* C9, as claimed: the "Part is smaller than bed" assertion is never       *)
(* reached from the entry point.                                           *)
C9_AssertionNeverReached == pc # "assert_failed"

(* C10, as claimed: in a run that completes (here: one given pairwise      *)
(* distinct input paths) every part is written to its own file, so the     *)
(* number of distinct files equals the N of "Saved N part(s)".             *)
C10_EveryPartHasItsOwnFile ==
    (pc = "done" /\ Cardinality({InputPaths[k] : k \in 1..Len(InputPaths)}) = Len(InputPaths)) =>
        /\ stdout[Len(stdout)] = <<"Saved", Len(parts)>>
        /\ Cardinality(SavedFiles) = Len(parts)

----------------------------------------------------------------------------
(* Claims about make_jigsaw (SpecJigsaw) *)

(* The least n with n * bed_dim >= span + tooth, i.e. ceil((span+5)/dim). *)
LeastPieces(span, bed_dim) ==
    CHOOSE n \in 1..(span + mm(tooth_size) + 1) :
        /\ n * mm(bed_dim) >= span + mm(tooth_size)
        /\ (n - 1) * mm(bed_dim) < span + mm(tooth_size)

(* C5: a make_jigsaw that returns has called the cutter exactly            *)
(* (y_pieces - 1) + (x_pieces - 1) times: first the Y cuts, at offsets     *)
(* (yspan / y_pieces) * i on the part in its original orientation, then    *)
(* the X cuts, at offsets (xspan / x_pieces) * i on the part turned by 90  *)
(* degrees; the part returned is back in its original orientation.         *)
C5_CutCountAndOrder ==
    pc = "mj_returned" =>
        LET p0 == original_parts[Len(original_parts)]
            yp == LeastPieces(p0.yspan, bed[2])
            xp == LeastPieces(p0.xspan, bed[1])
        IN  /\ Len(cutLog) = (yp - 1) + (xp - 1)
            /\ \A i \in 1..(yp - 1) :
                 /\ cutLog[i].mesh.rot = p0.rot
                 /\ cutLog[i].num * yp = p0.yspan * i * cutLog[i].den
            /\ \A i \in 1..(xp - 1) :
                 /\ cutLog[yp - 1 + i].mesh.rot = (p0.rot + 1) % 4
                 /\ cutLog[yp - 1 + i].num * xp = p0.xspan * i * cutLog[yp - 1 + i].den
            /\ part.rot = p0.rot

C5_Witness ==
    /\ pc = "mj_returned"
    /\ bed = <<180, 180>>
    /\ original_parts[1].xspan = mm(400)
    /\ original_parts[1].yspan = mm(100)
    /\ Len(cutLog) = 2
    /\ \A i \in 1..2 : cutLog[i].mesh.rot = 1

----------------------------------------------------------------------------
(* Part.fits called on its own, on any part and any bed (SpecFits) *)

FitsCall ==
    /\ pc = "fits_call"
    /\ ret' = fits(part, bed)
    /\ part' = fits_self(part, bed)
    /\ pc' = "fits_returned"
    /\ UNCHANGED <<args, bed, outdir, original_parts, idx, parts, mj, cutLog, saved,
                   stdout, status>>
    /\ UNCHANGED packVars

InitFits ==
    /\ args = <<>>
    /\ pc = "fits_call"
    /\ bed \in (1..MaxFitBed) \X (1..MaxFitBed)
    /\ outdir = {}
    /\ part \in { Mesh("in.stl", mm(3), mm(4), mm(1), xs, ys, mm(1)) :
                    xs \in 0..MaxFitSpan, ys \in 0..MaxFitSpan }
    /\ original_parts = <<part>>
    /\ idx = 0
    /\ parts = <<>>
    /\ mj = NoLocals
    /\ cutLog = <<>>
    /\ saved = <<>>
    /\ stdout = <<>>
    /\ status = -1
    /\ ret = FALSE
    /\ rects = <<>>
    /\ bins = <<>>
    /\ beds = <<>>

NextFits == FitsCall

SpecFits == InitFits /\ [][NextFits]_vars

(* C2: for every bed, square or not, fits returns true exactly when the    *)
(* part's bbox fits the bed in at least one of its two orientations.       *)
C2_FitsIffSomeOrientationFits ==
    pc = "fits_returned" =>
        (ret <=> EitherOrientationFits(bbox(original_parts[1]), bed))

C2_Witness ==
    /\ pc = "fits_returned"
    /\ ret
    /\ bed[1] # bed[2]
    /\ part.rot = 1
    /\ bbox(original_parts[1])[1] > mm(bed[1])

----------------------------------------------------------------------------
(* arrange_to_beds (SpecPack) *)

Rect(x, y, width, height, rid) ==
    [x |-> x, y |-> y, width |-> width, height |-> height, rid |-> rid]

Overlap(a, b) ==
    /\ a.x < b.x + b.width /\ b.x < a.x + a.width
    /\ a.y < b.y + b.height /\ b.y < a.y + a.height

InBounds(r, bed_size) ==
    /\ r.x >= 0 /\ r.x + r.width <= mm(bed_size[1])
    /\ r.y >= 0 /\ r.y + r.height <= mm(bed_size[2])

(* The places the packer may give a rectangle of size (w, h) registered as *)
(* rid, given the bins filled so far: in an open bin or in a new one, as   *)
(* registered or turned by 90 degrees, at a corner left by the rectangles  *)
(* already there, inside the bin and overlapping none of them.             *)
PlacesFor(bs, w, h, rid, bed_size) ==
    LET dims == {<<w, h>>, <<h, w>>}
        xs(b) == {0} \cup { bs[b][k].x + bs[b][k].width : k \in 1..Len(bs[b]) }
        ys(b) == {0} \cup { bs[b][k].y + bs[b][k].height : k \in 1..Len(bs[b]) }
        free(b, r) == \A k \in 1..Len(bs[b]) : ~Overlap(r, bs[b][k])
        inOpen == { [bs EXCEPT ![b] = Append(@, Rect(x, y, d[1], d[2], rid))] :
                      <<b, x, y, d>> \in
                        { t \in UNION { {b} \X xs(b) \X ys(b) \X dims : b \in 1..Len(bs) } :
                            /\ InBounds(Rect(t[2], t[3], t[4][1], t[4][2], rid), bed_size)
                            /\ free(t[1], Rect(t[2], t[3], t[4][1], t[4][2], rid)) } }
        inNew  == { Append(bs, <<Rect(0, 0, d[1], d[2], rid)>>) :
                      d \in { e \in dims : InBounds(Rect(0, 0, e[1], e[2], rid), bed_size) } }
    IN  inOpen \cup inNew

(* packer.pack(): every layout the packing heuristic may return. *)
RECURSIVE Layouts(_, _, _)
Layouts(rs, n, bed_size) ==
    IF n = 0 THEN { <<>> }
    ELSE UNION { PlacesFor(bs, rs[n].width, rs[n].height, rs[n].rid, bed_size) :
                   bs \in Layouts(rs, n - 1, bed_size) }

(* A lookup that takes the first part whatever the label asked for. *)
lookup_first(ps, rid) == 1

(* line 70: {part.name: part for part in parts}[rect.rid]; of several      *)
(* parts with one name the dictionary keeps the last.                      *)
lookup(ps, rid) ==
    CHOOSE i \in 1..Len(ps) :
        /\ ps[i].name = rid
        /\ \A j \in (i + 1)..Len(ps) : ps[j].name # rid

(* A rotation test that compares the placed height with the bbox width. *)
rotated_by_height(rect, p) == rect.height # bbox(p)[1]

(* line 71 *)
rotated(rect, p) == rect.width # bbox(p)[1]

(* lines 69-73: the parts after every rectangle of one bin has been        *)
(* realised, from rectangle k on.                                          *)
RECURSIVE move_parts(_, _, _)
move_parts(ps, bin, k) ==
    IF k > Len(bin) THEN ps
    ELSE LET i == lookup(ps, bin[k].rid)
         IN  move_parts(
                 [ps EXCEPT ![i] = position_bbox(ps[i], bin[k].x, bin[k].y,
                                                 rotated(bin[k], ps[i]))],
                 bin, k + 1)

Min(S) == CHOOSE m \in S : \A n \in S : m <= n

Max(S) == CHOOSE m \in S : \A n \in S : m >= n

(* line 75: Part(numpy.concatenate(..)), as the extent of the merged data *)
Merged(ms) ==
    LET I == 1..Len(ms)
        x0 == Min({ ms[i].xmin : i \in I })
        y0 == Min({ ms[i].ymin : i \in I })
        z0 == Min({ ms[i].zmin : i \in I })
    IN  Mesh("", x0, y0, z0,
             Max({ ms[i].xmin + ms[i].xspan : i \in I }) - x0,
             Max({ ms[i].ymin + ms[i].yspan : i \in I }) - y0,
             Max({ ms[i].zmin + ms[i].zspan : i \in I }) - z0)

ABRegister ==
    /\ pc = "ab_register"
    /\ idx <= Len(parts)
    /\ IF fits(parts[idx], bed)
       THEN /\ parts' = [parts EXCEPT ![idx] = reset_origin(fits_self(@, bed))]
            /\ rects' = Append(rects, [width |-> bbox(parts'[idx])[1],
                                       height |-> bbox(parts'[idx])[2],
                                       rid |-> parts'[idx].name])
            /\ idx' = idx + 1
            /\ UNCHANGED <<pc, stdout, status>>
       ELSE /\ parts' = [parts EXCEPT ![idx] = fits_self(@, bed)]
            /\ pc' = "ab_assert_failed"
            /\ stdout' = Append(stdout, <<"AssertionError: bigger than stock size", 0>>)
            /\ status' = 1
            /\ UNCHANGED <<rects, idx>>
    /\ UNCHANGED <<args, bed, outdir, original_parts, part, mj, cutLog, saved, ret,
                   bins, beds>>

ABPack ==
    /\ pc = "ab_register"
    /\ idx > Len(parts)
    /\ bins' \in Layouts(rects, Len(rects), bed)
    /\ idx' = 1
    /\ pc' = IF Len(bins') = 0 THEN "ab_returned" ELSE "ab_move"
    /\ UNCHANGED <<args, bed, outdir, original_parts, parts, part, mj, cutLog, saved,
                   stdout, status, ret, rects, beds>>

(* lines 66-78 for one bin: realise its rectangles, merge, name, reset *)
ABMove ==
    /\ pc = "ab_move"
    /\ parts' = move_parts(parts, bins[idx], 1)
    /\ beds' = Append(beds,
         LET bin_parts == [k \in 1..Len(bins[idx]) |->
                             parts'[lookup(parts, bins[idx][k].rid)]]
         IN  [name |-> <<"bed-", idx>>,
              bin_parts |-> bin_parts,
              mesh |-> reset_origin(Merged(bin_parts))])
    /\ idx' = idx + 1
    /\ pc' = IF idx' > Len(bins) THEN "ab_returned" ELSE "ab_move"
    /\ UNCHANGED <<args, bed, outdir, original_parts, part, mj, cutLog, saved,
                   stdout, status, ret, rects, bins>>

PackShapes ==
    { Mesh("", mm(3), mm(4), mm(1), mm(50), mm(50), mm(10)),
      Mesh("", mm(3), mm(4), mm(1), mm(150), mm(100) - 1, mm(10)),
      Mesh("", mm(3), mm(4), mm(1), mm(100), mm(200), mm(10)) }

PackNames == {"p.stl", "q.stl", "r.stl"}

PackParts == { [m EXCEPT !.name = n] : m \in PackShapes, n \in PackNames }

InitPack ==
    /\ args = <<>>
    /\ pc = "ab_register"
    /\ bed \in {BED_SIZE, BED_SIZE_X1}
    /\ outdir = {}
    /\ part = NoPart
    /\ parts \in SeqsUpTo(PackParts, MaxPackParts)
    /\ original_parts = parts
    /\ idx = 1
    /\ mj = NoLocals
    /\ cutLog = <<>>
    /\ saved = <<>>
    /\ stdout = <<>>
    /\ status = -1
    /\ ret = FALSE
    /\ rects = <<>>
    /\ bins = <<>>
    /\ beds = <<>>

NextPack ==
    \/ ABRegister
    \/ ABPack
    \/ ABMove

SpecPack == InitPack /\ [][NextPack]_vars

NamesDistinct(ps) == \A i, j \in 1..Len(ps) : ps[i].name = ps[j].name => i = j

(* The margin-padded bounding box of a part where it lies. *)
PaddedBox(p) ==
    Rect(p.xmin - mm(PART_GAP) \div 2, p.ymin - mm(PART_GAP) \div 2,
         bbox(p)[1], bbox(p)[2], p.name)

(* C6: given parts with pairwise distinct names that all fit, every part   *)
(* is placed and merged into exactly one bed.                              *)
C6_EveryPartInExactlyOneBed ==
    (pc = "ab_returned" /\ NamesDistinct(original_parts)) =>
        \A i \in 1..Len(original_parts) :
            Cardinality({ bm \in { <<b, m>> : b \in 1..Len(beds), m \in 1..Len(original_parts) } :
                            /\ bm[2] <= Len(beds[bm[1]].bin_parts)
                            /\ beds[bm[1]].bin_parts[bm[2]].name = original_parts[i].name })
              = 1

C6_Witness ==
    /\ pc = "ab_returned"
    /\ NamesDistinct(original_parts)
    /\ Len(original_parts) >= 2
    /\ Len(beds) >= 2

====
